---- MODULE Spec2Model ----
(***************************************************************************)
(* Model of porter's control layer (src/porter/controllers.py and          *)
(* src/porter/interfaces.py): the interface registry, the shared           *)
(* load -> method -> dump pipeline of ControllerBase._perform_action, the  *)
(* web transport WebController.handle_request with its exception           *)
(* taxonomy, and the CLI transport of PorterCLIController.                 *)
(*                                                                         *)
(* Python dicts over the parameter names are total functions on Keys with  *)
(* the value Absent for a name the dict does not hold.  Exceptions are     *)
(* records [type, msg, failures]; isinstance is IsInstance.                *)
(***************************************************************************)
EXTENDS Integers, Sequences, FiniteSets, TLC

\* ------------------------------------------------------------------ bounds
MaxBodyFields == 2      \* entries of a JSON object body / CLI request dict
MaxQueryFields == 1     \* entries of the query string
MaxKwargs == 1          \* injected keyword parameters
MaxFailures == 2

MaxPort == 2        \* entries of WorkerPoolException.failures

\* ------------------------------------------------------------------ dicts
Absent == "absent"
Keys == {"quantity", "treasure_map", "bad"}

\* Raw values a parameter may carry: n4 is the JSON number 4, s5 the string
\* "5", sTM an encoded treasure map, sx a string that is no valid value.
TokensOf(k) ==
    CASE k = "quantity" -> {"n4", "s5", "sx"}
      [] k = "treasure_map" -> {"sTM", "sx"}
      [] OTHER -> {"sx"}

AllTokens == UNION {TokensOf(k) : k \in Keys}

Dicts == {m \in [Keys -> AllTokens \cup {Absent}] :
            \A k \in Keys : m[k] = Absent \/ m[k] \in TokensOf(k)}

EmptyDict == [k \in Keys |-> Absent]

Has(m, k) == m[k] # Absent

Size(m) == Cardinality({k \in Keys : Has(m, k)})

DictsUpTo(n) == {m \in Dicts : Size(m) <= n}

\* dict.update(other): the entries of other overwrite same-named entries.
Update(m, other) == [k \in Keys |-> IF Has(other, k) THEN other[k] ELSE m[k]]

\* ------------------------------------------------------------- exceptions
NoFailures == << >>

Exc(type, msg) == [type |-> type, msg |-> msg, failures |-> NoFailures]

NoExc == Exc("none", << >>)

\* The classes the handlers of handle_request name, with the builtin
\* hierarchy: JSONDecodeError and the schema's validation error derive from
\* ValueError.
IsInstance(e, cls) ==
    \/ e.type = cls
    \/ cls = "ValueError" /\ e.type \in {"JSONDecodeError", "InvalidInputData"}
    \/ cls = "Exception" /\ e.type # "none"

\* ----------------------------------------------------------- the interface
\* What getattr finds on a PorterInterface instance: its bound methods and the
\* implementer attribute set by ControlInterface.__init__.
InterfaceMethods == {"__init__", "get_ursulas", "revoke", "retrieve_cfrags"}

InterfaceAttrs == InterfaceMethods \cup {"implementer"}

\* attach_schema sets func._schema on the decorated methods only.
HasSchema(a) == a \in {"get_ursulas", "revoke", "retrieve_cfrags"}

\* A registry without the hasattr(method, '_schema') filter.
GetInterfacesAllMethods == InterfaceMethods

\* InterfaceControlServer._get_interfaces: the methods that carry a schema.
GetInterfaces == {a \in InterfaceAttrs : a \in InterfaceMethods /\ HasSchema(a)}

\* Action names a caller may ask for.
RequestNames == InterfaceAttrs \cup {"no_such_action"}

\* --------------------------------------------------------------- schemas
\* porter.schema lies outside the files modelled here; the schemas follow the
\* specification's contract: validate(raw) -> typed | raises on a missing,
\* malformed or unexpected field, serialize(result) -> primitive.
Declared(name) ==
    CASE name = "get_ursulas" -> {"quantity"}
      [] name = "retrieve_cfrags" -> {"treasure_map"}
      [] OTHER -> {}

Required(name) == Declared(name)

WellFormed(k, t) == t # "sx"

\* Field deserialization: the JSON number 4 and the string "5" both become
\* integers, an encoded treasure map becomes the object.
Coerce(k, t) ==
    CASE t = "n4" -> "int(4)"
      [] t = "s5" -> "int(5)"
      [] t = "sTM" -> "TreasureMap"
      [] OTHER -> Absent

ValidationProblem(name, raw) ==
    \/ \E k \in Keys : Has(raw, k) /\ k \notin Declared(name)
    \/ \E k \in Required(name) : ~Has(raw, k)
    \/ \E k \in Declared(name) : Has(raw, k) /\ ~WellFormed(k, raw[k])

SchemaLoad(name, raw) ==
    IF ValidationProblem(name, raw)
    THEN [exc |-> Exc("InvalidInputData", <<"invalid input">>), params |-> EmptyDict]
    ELSE [exc |-> NoExc,
          params |-> [k \in Keys |-> IF Has(raw, k) THEN Coerce(k, raw[k]) ELSE Absent]]

\* Handler results and their serialization.
NoOutput == [kind |-> "unset", data |-> "unset"]

NoneOutput == [kind |-> "None", data |-> "None"]

SchemaDump(name, out) ==
    [kind |-> out.kind,
     data |-> CASE out.data = "info_a" -> "json(info_a)"
                [] out.data = "info_b" -> "json(info_b)"
                [] OTHER -> "json({})"]

\* -------------------------------------------------------------- handlers
\* The implementer is opaque: a call returns a result or raises.  A
\* WorkerPoolException carries failures, an insertion-ordered mapping from a
\* value to the exc_info recorded for it.
ImplResults == {"info_a", "info_b"}

FailureValues == {"x", "y"}

FailureErrors == {"err1", "err2"}

FailureEntries == [value : FailureValues, error : FailureErrors]

RECURSIVE SeqsUpTo(_, _)
SeqsUpTo(S, n) ==
    IF n = 0 THEN {<< >>}
    ELSE LET shorter == SeqsUpTo(S, n - 1)
         IN shorter \cup {Append(q, x) : q \in shorter, x \in S}

\* dict keys are unique.
FailureMappings ==
    {f \in SeqsUpTo(FailureEntries, MaxFailures) :
        \A i, j \in 1..Len(f) : i # j => f[i].value # f[j].value}

WorkerPoolException(f) ==
    [type |-> "WorkerPoolException", msg |-> <<"worker pool failure">>, failures |-> f]

ImplErrors ==
    {Exc("RuntimeError", <<"implementer failed">>),
     Exc("ValueError", <<"implementer value error">>),
     Exc("TypeError", <<"implementer type error">>)}
    \cup {WorkerPoolException(f) : f \in FailureMappings}

Returned(out) == [exc |-> NoExc, output |-> out]

Raised(e) == [exc |-> e, output |-> NoOutput]

\* PorterInterface.get_ursulas / revoke / retrieve_cfrags: what one call of
\* the method with validated parameters can do.
HandlerOutcomes(name) ==
    CASE name = "get_ursulas" ->
            {Returned([kind |-> "ursulas", data |-> r]) : r \in ImplResults}
            \cup {Raised(e) : e \in ImplErrors}
      [] name = "retrieve_cfrags" ->
            {Returned([kind |-> "retrieval_results", data |-> r]) : r \in ImplResults}
            \cup {Raised(e) : e \in ImplErrors}
      [] OTHER -> {Returned(NoneOutput)}

\* ------------------------------------------------------------ the emitter
\* porter.emitters.WebEmitter lies outside the files modelled here; responses
\* follow the specification's table: status and {result} or {failure_message,
\* failures?}.
NoResponse ==
    [status |-> 0, result |-> NoOutput, failure_message |-> << >>,
     has_failures |-> FALSE, failures |-> << >>]

EmitterRespond(serialized) == [NoResponse EXCEPT !.status = 200, !.result = serialized]

EmitterException(e, response_code) ==
    [NoResponse EXCEPT !.status = response_code, !.failure_message = e.msg]

EmitterExceptionWithResponse(json_error_response, response_code) ==
    [NoResponse EXCEPT !.status = response_code,
                       !.failure_message = json_error_response.failure_message,
                       !.has_failures = json_error_response.has_failures,
                       !.failures = json_error_response.failures]

\* str(exc_info[1])
StrOf(err) == IF err = "err1" THEN "str(err1)" ELSE "str(err2)"

\* The failures listed last to first.
JsonResponseReversed(exception) ==
    LET n == Len(exception.failures)
    IN [failure_message |-> exception.msg,
        has_failures |-> n > 0,
        failures |-> [i \in 1..n |->
                        [value |-> exception.failures[n + 1 - i].value,
                         error |-> StrOf(exception.failures[n + 1 - i].error)]]]

\* A body that carries the failures key whatever the mapping holds.
JsonResponseAlwaysFailures(exception) ==
    [failure_message |-> exception.msg,
     has_failures |-> TRUE,
     failures |-> [i \in 1..Len(exception.failures) |->
                     [value |-> exception.failures[i].value,
                      error |-> StrOf(exception.failures[i].error)]]]

\* WebController.json_response_from_worker_pool_exception
JsonResponseFromWorkerPoolException(exception) ==
    IF exception.failures # << >>
    THEN [failure_message |-> exception.msg,
          has_failures |-> TRUE,
          failures |-> [i \in 1..Len(exception.failures) |->
                          [value |-> exception.failures[i].value,
                           error |-> StrOf(exception.failures[i].error)]]]
    ELSE [failure_message |-> exception.msg, has_failures |-> FALSE, failures |-> << >>]

\* ------------------------------------------------- WebController, pure parts
\* control_request.data: empty, bytes that are no JSON, JSON that is no
\* object, or a JSON object.
NonObjectKinds == {"json_list", "json_scalar"}

WebBodies ==
    {[kind |-> k, obj |-> EmptyDict] : k \in {"empty", "garbage"} \cup NonObjectKinds}
    \cup {[kind |-> "json_object", obj |-> m] : m \in DictsUpTo(MaxBodyFields)}

\* The two update calls in the other order.
MergeRequestKwargsFirst(parsed, has_args, args, kwargs) ==
    LET with_kwargs == Update(parsed, kwargs)
    IN IF has_args THEN Update(with_kwargs, args) ELSE with_kwargs

\* handle_request, the two update calls: the query string over the parsed
\* body, the keyword parameters over both.
MergeRequest(parsed, has_args, args, kwargs) ==
    Update(IF has_args THEN Update(parsed, args) ELSE parsed, kwargs)

\* handle_request up to the call of _perform_action: json.loads, the merges,
\* the registry lookup.  json.loads raises on bytes that are no JSON; a parsed
\* list or scalar has no update method.
Normalize(method_name, body, has_args, args, kwargs) ==
    IF body.kind = "garbage"
    THEN [exc |-> Exc("JSONDecodeError", <<"Expecting value">>), request_body |-> EmptyDict]
    ELSE IF body.kind \in NonObjectKinds
    THEN [exc |-> Exc("AttributeError", <<"object has no attribute 'update'">>),
          request_body |-> EmptyDict]
    ELSE LET parsed == IF body.kind = "empty" THEN EmptyDict ELSE body.obj
             merged == MergeRequest(parsed, has_args, args, kwargs)
         IN IF method_name \notin GetInterfaces
            THEN [exc |-> Exc("MethodNotFound", <<"No method called", method_name>>),
                  request_body |-> EmptyDict]
            ELSE [exc |-> NoExc, request_body |-> merged]

\* An except clause that leaves ValueError out.
Is400ExceptionNoValueError(e) ==
    \/ e.type = "TypeError"
    \/ e.type = "JSONDecodeError"
    \/ e.type = "MethodNotFound"

\* handle_request's first except clause.
Is400Exception(e) ==
    \/ IsInstance(e, "ValueError")
    \/ IsInstance(e, "TypeError")
    \/ IsInstance(e, "JSONDecodeError")
    \/ IsInstance(e, "MethodNotFound")

Propagate(e) == [raised |-> e, response |-> NoResponse]

Respond(r) == [raised |-> NoExc, response |-> r]

\* Except clauses without the final except Exception.
WebExceptResultNoCatchAll(e, crash) ==
    IF Is400Exception(e)
    THEN Respond(EmitterException(e, 400))
    ELSE IF IsInstance(e, "WorkerPoolException") /\ ~crash
    THEN Respond(EmitterExceptionWithResponse(
                   JsonResponseFromWorkerPoolException(e), 404))
    ELSE Propagate(e)

\* Except clauses that all re-raise under crash_on_error.
WebExceptResultCrashAll(e, crash) ==
    IF crash THEN Propagate(e)
    ELSE IF Is400Exception(e) THEN Respond(EmitterException(e, 400))
    ELSE IF IsInstance(e, "WorkerPoolException")
    THEN Respond(EmitterExceptionWithResponse(
                   JsonResponseFromWorkerPoolException(e), 404))
    ELSE Respond(EmitterException(e, 500))

\* handle_request's except clauses, first match wins.
WebExceptResult(e, crash) ==
    IF Is400Exception(e)
    THEN Respond(EmitterException(e, 400))
    ELSE IF IsInstance(e, "WorkerPoolException")
    THEN IF crash THEN Propagate(e)
         ELSE Respond(EmitterExceptionWithResponse(
                        JsonResponseFromWorkerPoolException(e), 404))
    ELSE IF crash THEN Propagate(e)
         ELSE Respond(EmitterException(e, 500))

\* handle_request's else clause.
WebElseResult(serialized) == Respond(EmitterRespond(serialized))

\* ---------------------------------------- ControllerBase._perform_action
\* request or {}, getattr(self.interface, action, None), method._schema and
\* serializer.load(request).  A name that is no attribute gives None, and
\* None, an undecorated method and the implementer have no _schema.
PerformLoad(action, request) ==
    IF action \notin InterfaceAttrs \/ ~HasSchema(action)
    THEN [exc |-> Exc("AttributeError", <<"no attribute '_schema'">>),
          params |-> EmptyDict, loaded |-> FALSE]
    ELSE LET l == SchemaLoad(action, request)
         IN [exc |-> l.exc, params |-> l.params, loaded |-> TRUE]

\* A pipeline that hands back the handler's output as it is.
DumpResultRaw(action, response) == response

\* serializer.dump(response)
DumpResult(action, response) == SchemaDump(action, response)

\* WebController.handle_request as one function of the request, of what the
\* handler does when it is called, and of crash_on_error.
HandleRequestResult(method_name, body, has_args, args, kwargs, outcome, crash) ==
    LET n == Normalize(method_name, body, has_args, args, kwargs)
        l == PerformLoad(method_name, n.request_body)
    IN IF n.exc # NoExc THEN WebExceptResult(n.exc, crash)
       ELSE IF l.exc # NoExc THEN WebExceptResult(l.exc, crash)
       ELSE IF outcome.exc # NoExc THEN WebExceptResult(outcome.exc, crash)
       ELSE WebElseResult(DumpResult(method_name, outcome.output))

\* ------------------------------------------------------------------ state
VARIABLES
    crash_on_error,   \* InterfaceControlServer.crash_on_error
    json_ipc,         \* GlobalLoggerSettings._json_ipc
    wrappers,         \* the wrappers setattr bound on the controller, by name
    server,           \* what WebController.start was called with and bound
    req               \* the requests in flight, one record per serving thread

vars == <<crash_on_error, json_ipc, wrappers, server, req>>

\* What a request never assigns.
Config == <<crash_on_error, json_ipc, wrappers, server>>

EmptyBody == [kind |-> "empty", obj |-> EmptyDict]

\* A thread that serves no request.  pc is the place in handle_request /
\* _perform_action; events lists the calls made for the request so far.
Idle ==
    [transport |-> "none", via_wrapper |-> FALSE, method_name |-> "none",
     body |-> EmptyBody, has_args |-> FALSE, args |-> EmptyDict,
     wrapper_request |-> EmptyDict, kwargs |-> EmptyDict,
     pc |-> "idle", request |-> EmptyDict, params |-> EmptyDict,
     called_with |-> EmptyDict, outcome |-> Returned(NoOutput),
     output |-> NoOutput, serialized |-> NoOutput, exc |-> NoExc,
     raised |-> NoExc, response |-> NoResponse, returned |-> NoOutput,
     events |-> << >>, emitted |-> << >>, now |-> 0]

Free(s) == req[s].pc = "idle"

\* The merged request kept on the controller, where every thread sees it.
SetShared(s, r) ==
    req' = [t \in DOMAIN req |->
              IF t = s THEN r
              ELSE IF req[t].pc \in {"load", "invoke", "dump", "returned"}
                   THEN [req[t] EXCEPT !.request = r.request]
                   ELSE req[t]]

Set(s, r) == req' = [req EXCEPT ![s] = r]

\* A loop that binds every wrapper to the loop variable's last value.
SetMethodLateBinding(bound, name) == [n \in DOMAIN bound \cup {name} |-> name]

\* set_method(name): setattr(self, name, wrapper), the wrapper dispatching to
\* the name it was made for.
SetMethod(bound, name) ==
    [n \in DOMAIN bound \cup {name} |-> IF n = name THEN name ELSE bound[n]]

\* for method_name in self._get_interfaces().keys(): set_method, set_method
RECURSIVE RegisterAll(_, _)
RegisterAll(bound, names) ==
    IF names = {} THEN bound
    ELSE LET name == CHOOSE n \in names : TRUE
         IN RegisterAll(SetMethod(SetMethod(bound, name), name), names \ {name})

NoWrappers == [n \in {} |-> n]

\* A file path argument of start: None, or a Path (always truthy).
NoPath == "None"

KeyPaths == {NoPath, "key.pem"}

CertPaths == {NoPath, "cert.pem"}

Ports == 1..MaxPort

\* A controller whose start was not called: nothing is bound.
NotStarted ==
    [phase |-> "constructed", dry_run |-> FALSE,
     tls_key_filepath |-> NoPath, tls_certificate_filepath |-> NoPath,
     bind |-> "none", port |-> 0, key |-> NoPath, cert |-> NoPath]

\* A start that takes the HTTPS branch when either file path is given.
StartResultEitherTls(port, tls_key_filepath, tls_certificate_filepath, dry_run) ==
    LET called == [NotStarted EXCEPT
                      !.dry_run = dry_run,
                      !.tls_key_filepath = tls_key_filepath,
                      !.tls_certificate_filepath = tls_certificate_filepath]
    IN IF dry_run
       THEN [called EXCEPT !.phase = "returned"]
       ELSE IF tls_key_filepath # NoPath \/ tls_certificate_filepath # NoPath
       THEN [called EXCEPT !.phase = "running", !.bind = "https", !.port = port,
                           !.key = tls_key_filepath,
                           !.cert = tls_certificate_filepath]
       ELSE [called EXCEPT !.phase = "running", !.bind = "http", !.port = port]

\* WebController.start up to the blocking hx_deployer.run(): the deployer
\* built, if any, with the options it is given.
StartResult(port, tls_key_filepath, tls_certificate_filepath, dry_run) ==
    LET called == [NotStarted EXCEPT
                      !.dry_run = dry_run,
                      !.tls_key_filepath = tls_key_filepath,
                      !.tls_certificate_filepath = tls_certificate_filepath]
    IN IF dry_run
       THEN [called EXCEPT !.phase = "returned"]
       ELSE IF tls_key_filepath # NoPath /\ tls_certificate_filepath # NoPath
       THEN [called EXCEPT !.phase = "running", !.bind = "https", !.port = port,
                           !.key = tls_key_filepath,
                           !.cert = tls_certificate_filepath]
       ELSE [called EXCEPT !.phase = "running", !.bind = "http", !.port = port]

\* InterfaceControlServer.__init__
Constructed ==
    /\ crash_on_error \in BOOLEAN
    /\ wrappers = RegisterAll(NoWrappers, GetInterfaces)
    /\ server = NotStarted

Init ==
    /\ Constructed
    /\ json_ipc \in BOOLEAN
    /\ req = [s \in {1} |-> Idle]

\* --------------------------------------------------------- web transport
\* A request arrives at the endpoint of method_name: WebController.__call__.
WebArrival(s, names, bodies, queries, keywords) ==
    /\ Free(s)
    /\ \E name \in names, body \in bodies, has_args \in BOOLEAN,
          args \in queries, kwargs \in keywords :
          /\ has_args \/ args = EmptyDict
          /\ Set(s, [Idle EXCEPT !.transport = "web", !.method_name = name,
                                 !.body = body, !.has_args = has_args,
                                 !.args = args, !.kwargs = kwargs,
                                 !.pc = "normalize"])
    /\ UNCHANGED Config

WebRequest(s) ==
    WebArrival(s, RequestNames, WebBodies,
               DictsUpTo(MaxQueryFields), DictsUpTo(MaxKwargs))

\* handle_request's try block up to the call of _perform_action.
WebNormalize(s) ==
    /\ req[s].pc = "normalize"
    /\ LET r == req[s]
           n == Normalize(r.method_name, r.body, r.has_args, r.args, r.kwargs)
       IN IF n.exc # NoExc
          THEN Set(s, [r EXCEPT !.exc = n.exc, !.pc = "raised"])
          ELSE Set(s, [r EXCEPT !.request = n.request_body, !.pc = "load"])
    /\ UNCHANGED Config

\* ---------------------------------------- _perform_action, step by step
\* A pipeline that calls the method whatever load did.
AfterLoadAlways(l) == "invoke"

AfterLoad(l) == IF l.exc # NoExc THEN "raised" ELSE "invoke"

\* request = request or {} ... params = serializer.load(request)
Load(s) ==
    /\ req[s].pc = "load"
    /\ LET r == req[s]
           l == PerformLoad(r.method_name, r.request)
       IN Set(s, [r EXCEPT !.events = IF l.loaded THEN Append(@, "load") ELSE @,
                           !.params = l.params,
                           !.exc = l.exc,
                           !.pc = AfterLoad(l)])
    /\ UNCHANGED Config

\* A pipeline that calls the method again when it raised.
AfterMethodRetry(o) == IF o.exc # NoExc THEN "invoke" ELSE "dump"

AfterMethod(o) == IF o.exc # NoExc THEN "raised" ELSE "dump"

\* response = method(**params).  now is the time since handle_request was
\* entered; the call into the implementer takes time.
InvokeWith(s, outcomes) ==
    /\ req[s].pc = "invoke"
    /\ \E o \in outcomes :
          Set(s, [req[s] EXCEPT !.events = Append(@, "method"),
                                !.called_with = req[s].params,
                                !.outcome = o,
                                !.output = o.output,
                                !.exc = o.exc,
                                !.now = @ + 1,
                                !.pc = AfterMethod(o)])
    /\ UNCHANGED Config

Invoke(s) == InvokeWith(s, HandlerOutcomes(req[s].method_name))

\* return serializer.dump(response)
Dump(s) ==
    /\ req[s].pc = "dump"
    /\ Set(s, [req[s] EXCEPT !.events = Append(@, "dump"),
                             !.serialized = DumpResult(req[s].method_name, req[s].output),
                             !.pc = "returned"])
    /\ UNCHANGED Config

\* ------------------------------------------------- web transport, the end
Finish(r, result) ==
    [r EXCEPT !.raised = result.raised, !.response = result.response,
              !.events = Append(@, IF result.raised = NoExc THEN "respond" ELSE "raise"),
              !.pc = "done"]

\* handle_request's except clauses.
WebExcept(s) ==
    /\ req[s].transport = "web"
    /\ req[s].pc = "raised"
    /\ Set(s, Finish(req[s], WebExceptResult(req[s].exc, crash_on_error)))
    /\ UNCHANGED Config

\* handle_request's else clause.
WebElse(s) ==
    /\ req[s].transport = "web"
    /\ req[s].pc = "returned"
    /\ Set(s, Finish(req[s], WebElseResult(req[s].serialized)))
    /\ UNCHANGED Config

\* --------------------------------------------------------- CLI transport
\* InterfaceControlServer.__init__.set_method.wrapper: request = request or
\* kwargs.  None and the empty dict are both falsy.
WrapperRequest(request, kwargs) == IF request # EmptyDict THEN request ELSE kwargs

\* A call of the wrapper bound under a registered name.
CLIWrapper(s) ==
    /\ Free(s)
    /\ \E name \in DOMAIN wrappers, request \in DictsUpTo(MaxBodyFields),
          kwargs \in DictsUpTo(MaxKwargs) :
          Set(s, [Idle EXCEPT !.transport = "cli", !.via_wrapper = TRUE,
                              !.method_name = wrappers[name],
                              !.wrapper_request = request, !.kwargs = kwargs,
                              !.request = WrapperRequest(request, kwargs),
                              !.pc = "load"])
    /\ UNCHANGED Config

\* A direct call of CLIController.handle_request(method_name, request).
CLIHandleRequest(s) ==
    /\ Free(s)
    /\ \E name \in RequestNames, request \in DictsUpTo(MaxBodyFields) :
          Set(s, [Idle EXCEPT !.transport = "cli", !.method_name = name,
                              !.request = request, !.pc = "load"])
    /\ UNCHANGED Config

\* Cleanup after the call instead of in a finally clause.
CLIFinallyOnSuccess(s) ==
    /\ req[s].transport = "cli"
    /\ req[s].pc \in {"returned", "raised"}
    /\ IF req[s].pc = "raised"
       THEN Set(s, [req[s] EXCEPT !.raised = req[s].exc,
                                  !.events = Append(@, "raise"), !.pc = "done"])
       ELSE Set(s, [req[s] EXCEPT !.events = Append(@, "disenchant"), !.pc = "emit"])
    /\ UNCHANGED Config

\* A CLI that swallows the pipeline's exception unless crash_on_error is set.
CLIFinallySwallow(s) ==
    /\ req[s].transport = "cli"
    /\ req[s].pc \in {"returned", "raised"}
    /\ LET r == [req[s] EXCEPT !.events = Append(@, "disenchant")]
       IN IF req[s].pc = "raised" /\ crash_on_error
          THEN Set(s, [r EXCEPT !.raised = r.exc, !.events = Append(@, "raise"),
                                !.pc = "done"])
          ELSE Set(s, [r EXCEPT !.pc = "emit"])
    /\ UNCHANGED Config

\* PorterCLIController._perform_action's finally clause; an exception of the
\* pipeline then leaves handle_request.
CLIFinally(s) ==
    /\ req[s].transport = "cli"
    /\ req[s].pc \in {"returned", "raised"}
    /\ LET r == [req[s] EXCEPT !.events = Append(@, "disenchant")]
       IN IF req[s].pc = "raised"
          THEN Set(s, [r EXCEPT !.raised = r.exc, !.events = Append(@, "raise"),
                                !.pc = "done"])
          ELSE Set(s, [r EXCEPT !.pc = "emit"])
    /\ UNCHANGED Config

\* self.emitter.pretty(response)
EmitPretty(response) ==
    [mode |-> "pretty", response |-> response, request_id |-> 0, duration |-> 0]

\* start = maya.now(); self.emitter.ipc(response=response,
\* request_id=start.epoch, duration=maya.now() - start), read at time now.
EmitIpc(response, now) ==
    LET start == now
    IN [mode |-> "ipc", response |-> response, request_id |-> start,
        duration |-> now - start]

\* CLIController.handle_request after _perform_action returned.
CLIEmit(s) ==
    /\ req[s].transport = "cli"
    /\ req[s].pc = "emit"
    /\ Set(s, [req[s] EXCEPT
                 !.events = Append(@, "emit"),
                 !.emitted = Append(@, IF json_ipc
                                       THEN EmitIpc(req[s].serialized, req[s].now)
                                       ELSE EmitPretty(req[s].serialized)),
                 !.returned = req[s].serialized,
                 !.pc = "done"])
    /\ UNCHANGED Config

\* The caller has its response (or its exception); the thread is free again.
Return(s) ==
    /\ req[s].pc = "done"
    /\ Set(s, Idle)
    /\ UNCHANGED Config

\* ---------------------------------------------------------- specification
Next ==
    \/ \E s \in DOMAIN req : WebRequest(s)
    \/ \E s \in DOMAIN req : WebNormalize(s)
    \/ \E s \in DOMAIN req : Load(s)
    \/ \E s \in DOMAIN req : Invoke(s)
    \/ \E s \in DOMAIN req : Dump(s)
    \/ \E s \in DOMAIN req : WebExcept(s)
    \/ \E s \in DOMAIN req : WebElse(s)
    \/ \E s \in DOMAIN req : CLIWrapper(s)
    \/ \E s \in DOMAIN req : CLIHandleRequest(s)
    \/ \E s \in DOMAIN req : CLIFinally(s)
    \/ \E s \in DOMAIN req : CLIEmit(s)
    \/ \E s \in DOMAIN req : Return(s)

Spec == Init /\ [][Next]_vars

\* ------------------------------------------- concurrent web requests
\* Two threads of the hosting server inside handle_request of one controller
\* at once, the requests drawn from a smaller set.
ConcNames == {"get_ursulas", "no_such_action"}

ConcDicts == {m \in Dicts : Size(m) <= 1 /\ ~Has(m, "treasure_map") /\ ~Has(m, "bad")}

ConcKwargs == {m \in ConcDicts : m["quantity"] \in {Absent, "sx"}}

ConcQueries == {m \in ConcDicts : m["quantity"] \in {Absent, "s5"}}

ConcBodies ==
    {[kind |-> k, obj |-> EmptyDict] : k \in {"empty", "json_list"}}
    \cup {[kind |-> "json_object", obj |-> m] : m \in ConcDicts \ {EmptyDict}}

ConcWebRequest(s) == WebArrival(s, ConcNames, ConcBodies, ConcQueries, ConcKwargs)

ConcOutcomes ==
    {Returned([kind |-> "ursulas", data |-> "info_a"]),
     Raised(Exc("RuntimeError", <<"implementer failed">>)),
     Raised(WorkerPoolException(<<[value |-> "x", error |-> "err1"]>>))}

ConcInvoke(s) == InvokeWith(s, HandlerOutcomes(req[s].method_name) \cap ConcOutcomes)

InitConc ==
    /\ Constructed
    /\ json_ipc = FALSE
    /\ req = [s \in {1, 2} |-> Idle]

NextConc ==
    \/ \E s \in DOMAIN req : ConcWebRequest(s)
    \/ \E s \in DOMAIN req : WebNormalize(s)
    \/ \E s \in DOMAIN req : Load(s)
    \/ \E s \in DOMAIN req : ConcInvoke(s)
    \/ \E s \in DOMAIN req : Dump(s)
    \/ \E s \in DOMAIN req : WebExcept(s)
    \/ \E s \in DOMAIN req : WebElse(s)
    \/ \E s \in DOMAIN req : Return(s)

SpecConc == InitConc /\ [][NextConc]_vars

\* ------------------------------------------------------- start, then serve
\* WebController.start: called on a controller that binds nothing yet (after
\* construction or after a dry run); with a deployer it blocks in run().
Start(port, tls_key_filepath, tls_certificate_filepath, dry_run) ==
    /\ server.phase \in {"constructed", "returned"}
    /\ server' = StartResult(port, tls_key_filepath, tls_certificate_filepath, dry_run)
    /\ UNCHANGED <<crash_on_error, json_ipc, wrappers, req>>

\* A request that comes in through the bound endpoint.
ServedWebRequest(s) ==
    /\ server.phase = "running"
    /\ ConcWebRequest(s)

InitStart ==
    /\ Constructed
    /\ json_ipc = FALSE
    /\ req = [s \in {1} |-> Idle]

NextStart ==
    \/ \E port \in Ports, k \in KeyPaths, c \in CertPaths, dry_run \in BOOLEAN :
          Start(port, k, c, dry_run)
    \/ \E s \in DOMAIN req : ServedWebRequest(s)
    \/ \E s \in DOMAIN req : WebNormalize(s)
    \/ \E s \in DOMAIN req : Load(s)
    \/ \E s \in DOMAIN req : ConcInvoke(s)
    \/ \E s \in DOMAIN req : Dump(s)
    \/ \E s \in DOMAIN req : WebExcept(s)
    \/ \E s \in DOMAIN req : WebElse(s)
    \/ \E s \in DOMAIN req : Return(s)

SpecStart == InitStart /\ [][NextStart]_vars

\* ================================================================ claims
Reqs == {req[s] : s \in DOMAIN req}

Called(r, ev) == \E i \in 1..Len(r.events) : r.events[i] = ev

IsPipelineEvent(e) == e \in {"load", "method", "dump"}

IsPrefix(p, q) == Len(p) <= Len(q) /\ \A i \in 1..Len(p) : p[i] = q[i]

Web(r) == r.transport = "web"

WebDone(r) == Web(r) /\ r.pc = "done"

\* The body as a dict, when it is empty or a JSON object.
BodyIsDict(r) == r.body.kind \in {"empty", "json_object"}

ParsedBody(r) == IF r.body.kind = "json_object" THEN r.body.obj ELSE EmptyDict

\* Name by name: the keyword value, else the query value, else the body value.
MergedRaw(r) ==
    [k \in Keys |->
        IF Has(r.kwargs, k) THEN r.kwargs[k]
        ELSE IF r.has_args /\ Has(r.args, k) THEN r.args[k]
        ELSE ParsedBody(r)[k]]

\* C1: in _perform_action, for either transport, serializer.load comes before
\* the method call, the method is called only when load raised nothing, dump
\* is called only after the method returned, and what the pipeline hands to
\* the transport is the dumped value, never the method's own output.
C1_ValidateInvokeSerialize ==
    \A r \in Reqs :
        /\ IsPrefix(SelectSeq(r.events, IsPipelineEvent), <<"load", "method", "dump">>)
        /\ Called(r, "method") =>
              /\ SchemaLoad(r.method_name, r.request).exc = NoExc
              /\ r.called_with = SchemaLoad(r.method_name, r.request).params
        /\ Called(r, "dump") => Called(r, "method") /\ r.outcome.exc = NoExc
        /\ r.pc = "returned" =>
              /\ Called(r, "dump")
              /\ r.serialized = SchemaDump(r.method_name, r.outcome.output)
              /\ r.serialized # r.outcome.output
        /\ WebDone(r) /\ r.response.status = 200 =>
              r.response.result = SchemaDump(r.method_name, r.outcome.output)
        /\ r.transport = "cli" /\ r.pc = "done" /\ r.raised = NoExc =>
              r.returned = SchemaDump(r.method_name, r.outcome.output)

C1_Witness ==
    \E r \in Reqs :
        /\ r.pc = "returned"
        /\ r.events = <<"load", "method", "dump">>
        /\ r.outcome.output.data = "info_a"

\* C2: a web request to a registered action whose merged parameters fail
\* validation (an undeclared field, a missing required field, a malformed
\* value) gets status 400 and the handler is never called, under either value
\* of crash_on_error.
C2_InvalidParamsGive400 ==
    \A r \in Reqs :
        Web(r) /\ r.method_name \in GetInterfaces /\ BodyIsDict(r)
               /\ ValidationProblem(r.method_name, MergedRaw(r)) =>
            /\ ~Called(r, "method")
            /\ r.pc = "done" =>
                  /\ r.response.status = 400
                  /\ r.raised = NoExc
                  /\ Called(r, "load")

C2_Witness ==
    \E r \in Reqs :
        /\ WebDone(r) /\ crash_on_error
        /\ r.method_name = "get_ursulas"
        /\ r.body.kind = "json_object" /\ Has(r.body.obj, "bad")
        /\ Has(MergedRaw(r), "quantity") /\ WellFormed("quantity", MergedRaw(r)["quantity"])
        /\ r.response.status = 400

\* C3: a web request to a registered action whose body is empty or is no JSON
\* object (bytes that do not parse, or JSON that parses to no mapping) gets
\* status 400, never 500 and never a propagated exception.
C3_EmptyOrNonObjectBodyGives400 ==
    \A r \in Reqs :
        WebDone(r) /\ r.method_name \in GetInterfaces /\ r.body.kind # "json_object" =>
            r.response.status = 400 /\ r.raised = NoExc

\* C4: a web request whose action name is not registered gets, whatever its
\* body, query string and keywords, status 400 with a failure message naming
\* the unknown action, and neither load nor the handler is called for it.
C4_UnknownActionGives400 ==
    \A r \in Reqs :
        Web(r) /\ r.method_name \notin GetInterfaces =>
            /\ ~Called(r, "load") /\ ~Called(r, "method")
            /\ r.pc = "done" =>
                  /\ r.response.status = 400
                  /\ r.response.failure_message = <<"No method called", r.method_name>>

\* C5: the raw request handle_request passes to _perform_action holds every
\* name of the body, the query string and the keywords; a keyword value wins
\* over a query value, a query value over a body value, and a name in one
\* source keeps that source's value.
C5_MergePrecedence ==
    \A r \in Reqs :
        Web(r) /\ r.pc \in {"load", "invoke", "dump", "returned"} =>
            /\ BodyIsDict(r)
            /\ r.request = MergedRaw(r)
            /\ (r.body.kind = "empty" /\ r.kwargs = EmptyDict /\ r.has_args) =>
                  r.request = r.args

C5_Witness ==
    \E r \in Reqs :
        /\ Web(r) /\ r.pc = "load"
        /\ r.body.kind = "json_object" /\ r.body.obj["quantity"] = "n4"
        /\ r.has_args /\ r.args["quantity"] = "s5"
        /\ r.kwargs["quantity"] = "sx"
        /\ r.request["quantity"] = "sx"

\* The handler was called and raised.
HandlerRaised(r) == Called(r, "method") /\ r.outcome.exc # NoExc

IsAggregated(e) == e.type = "WorkerPoolException"

\* C6: with crash_on_error false, when the handler raises a
\* WorkerPoolException whose failures mapping has the entries v1..vn, the
\* web response has status 404, a failure_message, and a failures list of
\* exactly n entries, the i-th being {value: vi, error: str(error of vi)}.
C6_AggregatedFailureGives404 ==
    \A r \in Reqs :
        WebDone(r) /\ ~crash_on_error /\ HandlerRaised(r)
                   /\ IsAggregated(r.outcome.exc) /\ r.outcome.exc.failures # << >> =>
            LET f == r.outcome.exc.failures
            IN /\ r.raised = NoExc
               /\ r.response.status = 404
               /\ r.response.failure_message = r.outcome.exc.msg
               /\ r.response.failure_message # << >>
               /\ r.response.has_failures
               /\ Len(r.response.failures) = Len(f)
               /\ \A i \in 1..Len(f) :
                     r.response.failures[i] =
                        [value |-> f[i].value, error |-> StrOf(f[i].error)]

C6_Witness ==
    \E r \in Reqs :
        /\ WebDone(r) /\ ~crash_on_error
        /\ r.outcome.exc.failures =
              <<[value |-> "y", error |-> "err1"], [value |-> "x", error |-> "err2"]>>
        /\ r.response.status = 404
        /\ Len(r.response.failures) = 2

\* C7: with crash_on_error false, for a valid request to a registered action,
\* any error the handler raises that is no WorkerPoolException, whatever its
\* type, gives status 500 and a body with failure_message.
C7_HandlerErrorGives500 ==
    \A r \in Reqs :
        WebDone(r) /\ ~crash_on_error /\ HandlerRaised(r)
                   /\ ~IsAggregated(r.outcome.exc) =>
            /\ r.raised = NoExc
            /\ r.response.status = 500
            /\ r.response.failure_message # << >>

\* C8: with crash_on_error true, an error of the handler that is no
\* WorkerPoolException leaves handle_request as an exception, and no
\* response is made for the request.
C8_HandlerErrorPropagates ==
    \A r \in Reqs :
        WebDone(r) /\ crash_on_error /\ HandlerRaised(r)
                   /\ ~IsAggregated(r.outcome.exc) =>
            /\ r.raised = r.outcome.exc
            /\ r.response = NoResponse

\* handle_request on the request r under either setting of crash_on_error.
Under(r, crash) ==
    HandleRequestResult(r.method_name, r.body, r.has_args, r.args, r.kwargs,
                        r.outcome, crash)

\* C9: crash_on_error changes the 404 and 500 outcomes only: a request
\* answered 200 or 400 without it gets the identical response with it, a
\* request answered 404 or 500 without it has its error re-raised with it, and
\* an error of the 400 class is never propagated.
C9_CrashOnErrorOnly404And500 ==
    \A r \in Reqs :
        WebDone(r) =>
            LET off == Under(r, FALSE)
                on == Under(r, TRUE)
            IN /\ [raised |-> r.raised, response |-> r.response] = Under(r, crash_on_error)
               /\ off.raised = NoExc
               /\ off.response.status \in {200, 400, 404, 500}
               /\ off.response.status \in {200, 400} => on = off
               /\ off.response.status \in {404, 500} =>
                     /\ on.response = NoResponse
                     /\ on.raised # NoExc
                     /\ on.raised = r.exc
               /\ Is400Exception(r.exc) => r.raised = NoExc /\ r.response.status = 400

C9_Witness ==
    \E r \in Reqs :
        /\ WebDone(r) /\ crash_on_error
        /\ r.raised.type = "RuntimeError"
        /\ Under(r, FALSE).response.status = 500

\* C10: for a valid web request to a registered action whose handler returns,
\* the handler is called with schema.load(merged raw request), the status is
\* 200 and the response's result is schema.dump(handler output).
C10_RoundTrip ==
    \A r \in Reqs :
        WebDone(r) /\ r.method_name \in GetInterfaces /\ BodyIsDict(r)
                   /\ ~ValidationProblem(r.method_name, MergedRaw(r)) =>
            /\ Called(r, "method")
            /\ r.called_with = SchemaLoad(r.method_name, MergedRaw(r)).params
            /\ r.outcome.exc = NoExc =>
                  /\ r.raised = NoExc
                  /\ r.response.status = 200
                  /\ r.response.result = SchemaDump(r.method_name, r.outcome.output)

C10_Witness ==
    \E r \in Reqs :
        /\ WebDone(r) /\ r.method_name = "get_ursulas"
        /\ r.body.kind = "empty" /\ r.has_args /\ r.args["quantity"] = "s5"
        /\ r.called_with["quantity"] = "int(5)"
        /\ r.response.status = 200
        /\ r.response.result = [kind |-> "ursulas", data |-> "json(info_b)"]

\* ------------------------------------------------------- claims, continued
Cli(r) == r.transport = "cli"

CliDone(r) == Cli(r) /\ r.pc = "done"

Count(r, ev) == Cardinality({i \in 1..Len(r.events) : r.events[i] = ev})

\* ev1 was called, and every ev2 comes after every ev1.
Before(r, ev1, ev2) ==
    \A i, j \in 1..Len(r.events) :
        r.events[i] = ev1 /\ r.events[j] = ev2 => i < j

\* The interface methods that carry a schema.
SchemaMethods == {a \in InterfaceAttrs : a \in InterfaceMethods /\ HasSchema(a)}

\* C11: for every CLI invocation the implementer's disenchant is called
\* exactly once, after the pipeline ended, whether the pipeline returned or
\* raised (validation failure, handler error, unknown action).
C11_DisenchantExactlyOnce ==
    \A r \in Reqs :
        Cli(r) =>
            /\ Count(r, "disenchant") = IF r.pc \in {"emit", "done"} THEN 1 ELSE 0
            /\ Before(r, "load", "disenchant")
            /\ Before(r, "method", "disenchant")
            /\ Before(r, "dump", "disenchant")

C11_Witness ==
    \E r \in Reqs :
        /\ CliDone(r)
        /\ r.raised.type = "InvalidInputData"
        /\ Count(r, "disenchant") = 1

\* C12: the names the controller exposes (the wrappers bound at construction,
\* the names the web handle_request accepts) are exactly the interface
\* methods that carry a schema, and through either transport nothing of the
\* interface that lacks a schema is ever called, whatever name is asked for.
C12_OnlySchemaMethodsExposed ==
    /\ DOMAIN wrappers = SchemaMethods
    /\ \A r \in Reqs :
          /\ Called(r, "load") \/ Called(r, "method") => r.method_name \in SchemaMethods
          /\ Web(r) /\ r.pc \in {"load", "invoke", "dump", "returned"} =>
                r.method_name \in SchemaMethods
          /\ WebDone(r) /\ BodyIsDict(r) =>
                (r.exc.type = "MethodNotFound" <=> r.method_name \notin SchemaMethods)

C12_Witness ==
    \E r \in Reqs :
        /\ CliDone(r)
        /\ r.method_name = "__init__"
        /\ r.raised # NoExc
        /\ ~Called(r, "method")

\* C13: a wrapper called with a request dict and keyword arguments dispatches
\* the request dict merged with the keywords, a keyword overriding a
\* same-named entry; no keyword is dropped.
C13_WrapperMergesKwargs ==
    \A r \in Reqs :
        Cli(r) /\ r.via_wrapper => r.request = Update(r.wrapper_request, r.kwargs)

\* C14: CLI handle_request with a name that is not registered ends in a
\* not-found error for that name, not in an internal failure of the schema
\* lookup, and no handler is called.
C14_CliUnknownActionNotFound ==
    \A r \in Reqs :
        Cli(r) /\ r.method_name \notin SchemaMethods =>
            /\ ~Called(r, "method")
            /\ r.pc = "done" => r.raised.type = "MethodNotFound"

\* C15: with crash_on_error false, web handle_request returns exactly one
\* response for every name and request and never raises; the status is one
\* of 200, 400, 404, 500 and every response but 200 carries failure_message.
C15_WebTotal ==
    \A s \in DOMAIN req :
        Web(req[s]) /\ ~crash_on_error =>
            /\ req[s].pc # "done" =>
                  /\ ENABLED (WebNormalize(s) \/ Load(s) \/ Invoke(s) \/ Dump(s)
                              \/ WebExcept(s) \/ WebElse(s))
                  /\ Count(req[s], "respond") = 0
            /\ Count(req[s], "raise") = 0
            /\ req[s].pc = "done" =>
                  /\ Count(req[s], "respond") = 1
                  /\ req[s].raised = NoExc
                  /\ req[s].response.status \in {200, 400, 404, 500}
                  /\ req[s].response.status # 200 => req[s].response.failure_message # << >>
                  /\ req[s].response.status = 200 => req[s].response.result # NoOutput

C15_Witness ==
    \E r \in Reqs :
        /\ WebDone(r) /\ ~crash_on_error
        /\ r.outcome.exc.type = "RuntimeError"
        /\ r.response.status = 500

\* C16: in json-ipc mode a successful CLI invocation emits an envelope with
\* the serialized result, a request id and a duration, the start that gives
\* the request id being taken before the pipeline runs, so that the duration
\* spans the action.
C16_IpcEnvelopeTiming ==
    \A r \in Reqs :
        CliDone(r) /\ json_ipc /\ r.raised = NoExc =>
            /\ Len(r.emitted) = 1
            /\ r.emitted[1].mode = "ipc"
            /\ r.emitted[1].response = r.serialized
            /\ r.emitted[1].request_id = Idle.now
            /\ r.emitted[1].duration = r.now - Idle.now

\* C17: for one request, through either transport and whatever the outcome,
\* the handler is called at most once and the schema's load at most once.
C17_NoRetry ==
    \A r \in Reqs :
        /\ Count(r, "load") <= 1
        /\ Count(r, "method") <= 1
        /\ r.pc = "done" /\ (r.raised # NoExc \/ r.response.status \in {400, 404, 500}) =>
              Count(r, "respond") + Count(r, "raise") = 1

C17_Witness ==
    \E r \in Reqs :
        /\ WebDone(r)
        /\ r.response.status = 404
        /\ Count(r, "method") = 1 /\ Count(r, "load") = 1

\* C18: construction binds each registered name once to its own handler,
\* the second set_method of a name changing nothing, and no request, web or
\* CLI, successful or failing, changes the bound names, what a name is bound
\* to, or crash_on_error.
C18_RegistryReadOnly ==
    /\ [](wrappers = [n \in SchemaMethods |-> n])
    /\ [][wrappers' = wrappers /\ crash_on_error' = crash_on_error]_vars

C18_Witness ==
    \E r \in Reqs :
        /\ CliDone(r) /\ r.via_wrapper /\ r.raised # NoExc
        /\ wrappers["get_ursulas"] = "get_ursulas"
        /\ DOMAIN wrappers = SchemaMethods

\* C19: with concurrent web requests on one controller, each request is
\* dispatched with its own merged parameters and its response is the one it
\* would get alone, whatever the other thread does meanwhile.
C19_RequestsIsolated ==
    \A r \in Reqs :
        /\ Web(r) /\ r.pc \in {"load", "invoke", "dump", "returned"} =>
              r.request = MergedRaw(r)
        /\ Called(r, "method") =>
              r.called_with = SchemaLoad(r.method_name, MergedRaw(r)).params
        /\ WebDone(r) =>
              [raised |-> r.raised, response |-> r.response] = Under(r, crash_on_error)

C19_Witness ==
    /\ DOMAIN req = {1, 2}
    /\ WebDone(req[1]) /\ req[1].response.status = 200
    /\ req[2].pc = "returned"
    /\ req[1].request # req[2].request
    /\ req[1].events = <<"load", "method", "dump", "respond">>

\* C20: in the CLI, a result is emitted only after disenchant ran; when the
\* pipeline raised nothing is emitted and the error leaves handle_request
\* after disenchant ran, whatever crash_on_error is.
C20_CleanupBeforeEmit ==
    \A r \in Reqs :
        Cli(r) =>
            /\ Before(r, "disenchant", "emit")
            /\ r.emitted # << >> => Called(r, "disenchant") /\ r.exc = NoExc
            /\ r.pc = "done" /\ r.exc # NoExc =>
                  /\ r.emitted = << >>
                  /\ r.returned = NoOutput
                  /\ r.raised = r.exc
                  /\ Before(r, "disenchant", "raise")
                  /\ Called(r, "disenchant")
            /\ r.pc = "done" /\ r.exc = NoExc =>
                  /\ Len(r.emitted) = 1
                  /\ r.emitted[1].response = r.serialized
                  /\ r.raised = NoExc

C20_Witness ==
    \E r \in Reqs :
        /\ CliDone(r) /\ ~crash_on_error
        /\ r.raised.type = "WorkerPoolException"
        /\ r.emitted = << >>
        /\ r.events = <<"load", "method", "disenchant", "raise">>

\* C21: a web error body carries the failures key only for an aggregated
\* failure with a non-empty failures mapping: the 404 of an aggregated
\* failure with an empty mapping has failure_message and no failures key,
\* and the bodies of 400 and 500 never carry failures.
C21_FailuresKeyOnlyWhenNonEmpty ==
    \A r \in Reqs :
        WebDone(r) =>
            /\ r.response.has_failures <=>
                  /\ r.response.status = 404
                  /\ HandlerRaised(r) /\ IsAggregated(r.outcome.exc)
                  /\ r.outcome.exc.failures # << >>
            /\ ~r.response.has_failures => r.response.failures = << >>
            /\ r.response.status = 404 /\ r.outcome.exc.failures = << >> =>
                  /\ r.response.failure_message = r.outcome.exc.msg
                  /\ r.response.failure_message # << >>
                  /\ ~r.response.has_failures
            /\ r.response.status \in {400, 500} =>
                  ~r.response.has_failures /\ r.response.failure_message # << >>

C21_Witness ==
    \E r \in Reqs :
        /\ WebDone(r) /\ ~crash_on_error
        /\ r.outcome.exc = WorkerPoolException(<< >>)
        /\ r.response.status = 404
        /\ ~r.response.has_failures

\* C22: start with dry_run binds nothing, whatever TLS file paths it is
\* given; without dry_run it binds HTTPS exactly when both the key and the
\* certificate are given, with those two files and the port, and plain HTTP
\* on the port when both are omitted.
C22_StartBinds ==
    server.phase # "constructed" =>
        /\ server.dry_run =>
              /\ server.phase = "returned"
              /\ server.bind = "none" /\ server.port = NotStarted.port
              /\ \A r \in Reqs : r.pc = "idle"
        /\ ~server.dry_run =>
              /\ server.phase = "running"
              /\ server.bind \in {"http", "https"}
              /\ server.port \in Ports
              /\ server.bind = "https" <=>
                    /\ server.tls_key_filepath # NoPath
                    /\ server.tls_certificate_filepath # NoPath
              /\ server.bind = "https" =>
                    /\ server.key = server.tls_key_filepath
                    /\ server.cert = server.tls_certificate_filepath
              /\ server.tls_key_filepath = NoPath
                    /\ server.tls_certificate_filepath = NoPath =>
                    server.bind = "http" /\ server.key = NoPath /\ server.cert = NoPath

C22_Witness ==
    /\ server.phase = "running"
    /\ server.bind = "http"
    /\ server.tls_key_filepath # NoPath
    /\ server.tls_certificate_filepath = NoPath
    /\ \E r \in Reqs : WebDone(r) /\ r.response.status = 200

====
